---- MODULE Spec2Model ----
(***************************************************************************)
(* google-cloud-common, src/error: the structured error vocabulary.        *)
(*                                                                         *)
(* The sources are TypeScript declarations only (details.ts: the seven     *)
(* detail interfaces; status.ts: IStatus, the seven Status variants and    *)
(* their union).  What the declarations decide is which statements the     *)
(* type checker admits, so the model is the machine of those statements:   *)
(*   - Literal, AppendDetail: an object is put together,                   *)
(*   - Assign: `let value: T = candidate`, admitted when the candidate is  *)
(*     assignable to T (structural assignability of a non-fresh            *)
(*     expression: required properties present, optional ones free, extra  *)
(*     ones ignored),                                                      *)
(*   - Write*, PushDetail: property assignments and Array.push through the *)
(*     variable, admitted because no property is declared `readonly`,      *)
(*   - Replace, Discard: a new instance takes the place of the old one.    *)
(* A detail value carries `decl`, the interface its expression was         *)
(* declared with, and its shape (`props`, `viol`); the checker reads the   *)
(* shape only.                                                             *)
(***************************************************************************)
EXTENDS Integers, Sequences, FiniteSets, TLC

VARIABLES value, typechecks, info

vars == <<value, typechecks, info>>

----------------------------------------------------------------------------
(* Bounds of the model. *)

\* longest `details` array drawn as an input
MaxDetails == 2
\* longest `violations` / `fieldViolations` array inside a detail
MaxViolations == 1
\* longest `reason` / metadata key put together character by character
MaxChars == 2
\* most keys put into one `metadata` record
MaxKeys == 1

(* Limits the comments of details.ts state. *)

\* "This should be at most 63 characters"
MaxReasonLen == 63
\* "Keys should ... be limited to 64 characters in length"
MaxKeyLen == 64

----------------------------------------------------------------------------
(* The code enumeration (src/error/code.ts is imported by status.ts but is *)
(* not among the sources; names and numbers are those of the               *)
(* specification, section 4).                                              *)

CodeNames ==
    << "OK", "CANCELLED", "UNKNOWN", "INVALID_ARGUMENT", "DEADLINE_EXCEEDED",
       "NOT_FOUND", "ALREADY_EXISTS", "PERMISSION_DENIED", "RESOURCE_EXHAUSTED",
       "FAILED_PRECONDITION", "ABORTED", "OUT_OF_RANGE", "UNIMPLEMENTED",
       "INTERNAL", "UNAVAILABLE", "DATA_LOSS", "UNAUTHENTICATED" >>

Code == { CodeNames[i] : i \in 1..Len(CodeNames) }

CodeValue(c) == (CHOOSE i \in 1..Len(CodeNames) : CodeNames[i] = c) - 1

----------------------------------------------------------------------------
(* details.ts: the seven detail interfaces. *)

DetailTypes ==
    { "ErrorInfo", "RetryInfo", "DebugInfo", "QuotaFailure",
      "PreconditionFailure", "BadRequest", "ResourceInfo" }

\* the properties an interface declares without `?`
Required(T) ==
    CASE T = "ErrorInfo"           -> {"reason", "domain", "metadata"}
      [] T = "RetryInfo"           -> {"retryDelay"}
      [] T = "DebugInfo"           -> {"stackEntries", "detail"}
      [] T = "QuotaFailure"        -> {"violations"}
      [] T = "PreconditionFailure" -> {"violations"}
      [] T = "BadRequest"          -> {"fieldViolations"}
      [] T = "ResourceInfo"        -> {"resourceType", "resourceName", "description"}

\* the properties an interface declares with `?`
Optional(T) == IF T = "ResourceInfo" THEN {"owner"} ELSE {}

\* the interfaces whose only property is an array of violation records
HasViolations(T) == T \in {"QuotaFailure", "PreconditionFailure", "BadRequest"}

\* the properties of one element of that array
ViolationRequired(T) ==
    CASE T = "QuotaFailure"        -> {"subject", "description"}
      [] T = "PreconditionFailure" -> {"type", "subject", "description"}
      [] T = "BadRequest"          -> {"field", "description"}
      [] OTHER                     -> {}

SeqsUpTo(S, n) == UNION { [1..k -> S] : k \in 0..n }

\* the values an expression declared with interface T can have
DetailValues(T) ==
    { [decl |-> T, props |-> Required(T) \cup o, viol |-> v] :
        o \in SUBSET Optional(T),
        v \in IF HasViolations(T)
              THEN SeqsUpTo({ViolationRequired(T)}, MaxViolations)
              ELSE {<< >>} }

AllDetailValues == UNION { DetailValues(T) : T \in DetailTypes }

\* structural assignability of a detail value to interface T
Conforms(d, T) ==
    /\ Required(T) \subseteq d.props
    /\ HasViolations(T) =>
          \A i \in 1..Len(d.viol) : ViolationRequired(T) \subseteq d.viol[i]

----------------------------------------------------------------------------
(* status.ts: IStatus and the seven variants. *)

Variants ==
    { "BadRequestStatus", "PreconditionFailureStatus", "ErrorInfoStatus",
      "ResourceInfoStatus", "QuotaFailureStatus", "DebugInfoStatus",
      "RetryInfoStatus" }

\* mutant: RetryInfoStatus declared for UNAVAILABLE only
PermittedCodesRetryUnavailableOnly(v) ==
    CASE v = "BadRequestStatus"          -> {"INVALID_ARGUMENT", "OUT_OF_RANGE"}
      [] v = "PreconditionFailureStatus" -> {"FAILED_PRECONDITION"}
      [] v = "ErrorInfoStatus"           -> {"UNAUTHENTICATED", "PERMISSION_DENIED", "ABORTED"}
      [] v = "ResourceInfoStatus"        -> {"NOT_FOUND", "ALREADY_EXISTS"}
      [] v = "QuotaFailureStatus"        -> {"RESOURCE_EXHAUSTED"}
      [] v = "DebugInfoStatus"           -> {"DATA_LOSS", "UNKNOWN", "INTERNAL", "UNAVAILABLE", "DEADLINE_EXCEEDED"}
      [] v = "RetryInfoStatus"           -> {"UNAVAILABLE"}

\* first type argument of IStatus in each variant
PermittedCodes(v) ==
    CASE v = "BadRequestStatus"          -> {"INVALID_ARGUMENT", "OUT_OF_RANGE"}
      [] v = "PreconditionFailureStatus" -> {"FAILED_PRECONDITION"}
      [] v = "ErrorInfoStatus"           -> {"UNAUTHENTICATED", "PERMISSION_DENIED", "ABORTED"}
      [] v = "ResourceInfoStatus"        -> {"NOT_FOUND", "ALREADY_EXISTS"}
      [] v = "QuotaFailureStatus"        -> {"RESOURCE_EXHAUSTED"}
      [] v = "DebugInfoStatus"           -> {"DATA_LOSS", "UNKNOWN", "INTERNAL", "UNAVAILABLE", "DEADLINE_EXCEEDED"}
      [] v = "RetryInfoStatus"           -> {"UNAVAILABLE", "ABORTED"}

\* second type argument of IStatus in each variant
Payload(v) ==
    CASE v = "BadRequestStatus"          -> "BadRequest"
      [] v = "PreconditionFailureStatus" -> "PreconditionFailure"
      [] v = "ErrorInfoStatus"           -> "ErrorInfo"
      [] v = "ResourceInfoStatus"        -> "ResourceInfo"
      [] v = "QuotaFailureStatus"        -> "QuotaFailure"
      [] v = "DebugInfoStatus"           -> "DebugInfo"
      [] v = "RetryInfoStatus"           -> "RetryInfo"

\* `details: Payload[]`
DetailsConform(ds, T) == \A i \in 1..Len(ds) : Conforms(ds[i], T)

\* mutant: `status` declared with the whole enumeration (status: Code)
AssignableToVariantAnyCode(c, v) ==
    /\ c.status \in Code
    /\ DetailsConform(c.details, Payload(v))

\* assignability to IStatus<PermittedCodes(v), Payload(v)>: `code: number` and
\* `message: string` admit every number and string
AssignableToVariant(c, v) ==
    /\ c.status \in PermittedCodes(v)
    /\ DetailsConform(c.details, Payload(v))

\* mutant: the union read as an open record, any code with any one payload
IsStatusOpen(c) == \E v \in Variants : DetailsConform(c.details, Payload(v))

\* the union type Status: assignable to one of its members
IsStatus(c) == \E v \in Variants : AssignableToVariant(c, v)

TargetTypes == Variants \cup {"Status"}

AssignableTo(c, T) ==
    IF T = "Status" THEN IsStatus(c) ELSE AssignableToVariant(c, T)

----------------------------------------------------------------------------
(* Inputs. *)

Messages == {"invalid email", "quota exceeded"}

\* numbers drawn for `code`: the status' own number and that of NOT_FOUND
Numbers(s) == {CodeValue(s), CodeValue("NOT_FOUND")}

NoValue(r) == [type |-> "None", ref |-> r]

NoInfo == [set |-> FALSE, reason |-> << >>, metadata |-> {}]

Init ==
    /\ value = NoValue(0)
    /\ typechecks = FALSE
    /\ info = NoInfo

----------------------------------------------------------------------------
(* Statements over a Status value. *)

\* const candidate = {code: n, message: m, status: s, details: []}
\* a new object: its identity `ref` differs from the one it follows
Literal(n, m, s) ==
    /\ value.type = "None"
    /\ value' = [type |-> "Literal", ref |-> 1 - value.ref, code |-> n,
                 message |-> m, status |-> s, details |-> << >>]
    /\ typechecks' = FALSE
    /\ UNCHANGED info

\* candidate.details.push(d), the candidate not being typed yet
AppendDetail(d) ==
    /\ value.type = "Literal"
    /\ Len(value.details) < MaxDetails
    /\ value' = [value EXCEPT !.details = Append(@, d)]
    /\ UNCHANGED <<typechecks, info>>

\* let value: T = candidate;  `typechecks` is the checker's verdict
Assign(T) ==
    /\ value.type = "Literal"
    /\ value' = [value EXCEPT !.type = T]
    /\ typechecks' = AssignableTo(value, T)
    /\ UNCHANGED info

\* value.message = m   (message: string, not readonly)
WriteMessage(m) ==
    /\ typechecks
    /\ value' = [value EXCEPT !.message = m]
    /\ UNCHANGED <<typechecks, info>>

\* value.code = n   (code: number, not readonly)
WriteCode ==
    /\ typechecks
    /\ \E n \in Numbers(value.status) : value' = [value EXCEPT !.code = n]
    /\ UNCHANGED <<typechecks, info>>

\* value.status = s   through a variable of a variant type: s must be of the
\* property's type CodeType
WriteStatus(s) ==
    /\ typechecks
    /\ value.type \in Variants
    /\ s \in PermittedCodes(value.type)
    /\ value' = [value EXCEPT !.status = s]
    /\ UNCHANGED <<typechecks, info>>

\* value.details.push(d)   through a variable of a variant type: d must be
\* assignable to Payload
PushDetail(d) ==
    /\ typechecks
    /\ value.type \in Variants
    /\ Len(value.details) < MaxDetails
    /\ Conforms(d, Payload(value.type))
    /\ value' = [value EXCEPT !.details = Append(@, d)]
    /\ UNCHANGED <<typechecks, info>>

\* value = {...value, message: m}   a new instance replaces the old one
Replace(m) ==
    /\ typechecks
    /\ value' = [value EXCEPT !.ref = 1 - @, !.message = m]
    /\ UNCHANGED <<typechecks, info>>

\* the surrounding error object is discarded
Discard ==
    /\ value.type \in TargetTypes
    /\ value' = NoValue(value.ref)
    /\ typechecks' = FALSE
    /\ UNCHANGED info

Next ==
    \/ \E m \in Messages, s \in Code : \E n \in Numbers(s) : Literal(n, m, s)
    \/ \E d \in AllDetailValues : AppendDetail(d)
    \/ \E T \in TargetTypes : Assign(T)
    \/ \E m \in Messages : WriteMessage(m)
    \/ WriteCode
    \/ \E s \in Code : WriteStatus(s)
    \/ \E d \in AllDetailValues : PushDetail(d)
    \/ \E m \in Messages : Replace(m)
    \/ Discard

Spec == Init /\ [][Next]_vars

----------------------------------------------------------------------------
(* Statements over an ErrorInfo value: `reason: string` and                *)
(* `metadata: Record<string, string>` admit every string and every key.    *)
(* A string is the sequence of its characters.                             *)

Alphabet == {"A", "0", "_", "a", "-", "."}

Repeat(ch, n) == [i \in 1..n |-> ch]

\* const info: ErrorInfo = {reason: "", domain: "googleapis.com", metadata: {}}
NewErrorInfo ==
    /\ info' = [set |-> TRUE, reason |-> << >>, metadata |-> {}]
    /\ UNCHANGED <<value, typechecks>>

\* info.reason += ch
AppendReason(ch) ==
    /\ info.set
    /\ Len(info.reason) < MaxChars
    /\ info' = [info EXCEPT !.reason = Append(@, ch)]
    /\ UNCHANGED <<value, typechecks>>

\* info.reason = "A".repeat(n)
SetLongReason(n) ==
    /\ info.set
    /\ info' = [info EXCEPT !.reason = Repeat("A", n)]
    /\ UNCHANGED <<value, typechecks>>

\* info.metadata[k] = "..."
PutKey(k) ==
    /\ info.set
    /\ Cardinality(info.metadata) < MaxKeys
    /\ info' = [info EXCEPT !.metadata = @ \cup {k}]
    /\ UNCHANGED <<value, typechecks>>

\* info.metadata = {}
ClearMetadata ==
    /\ info.set
    /\ info' = [info EXCEPT !.metadata = {}]
    /\ UNCHANGED <<value, typechecks>>

NextErrorInfo ==
    \/ NewErrorInfo
    \/ \E ch \in Alphabet : AppendReason(ch)
    \/ \E n \in {MaxReasonLen, MaxReasonLen + 1} : SetLongReason(n)
    \/ \E k \in SeqsUpTo(Alphabet, MaxChars)
              \cup {Repeat("a", MaxKeyLen), Repeat("a", MaxKeyLen + 1)} : PutKey(k)
    \/ ClearMetadata

SpecErrorInfo == Init /\ [][NextErrorInfo]_vars

----------------------------------------------------------------------------
(* The claims. *)

\* the value is held by a variable whose declaration the checker admitted
Typed == typechecks /\ value.type \in TargetTypes

\* the variant table as the specification prints it
TableCodes ==
    [ BadRequestStatus          |-> {"INVALID_ARGUMENT", "OUT_OF_RANGE"},
      PreconditionFailureStatus |-> {"FAILED_PRECONDITION"},
      ErrorInfoStatus           |-> {"UNAUTHENTICATED", "PERMISSION_DENIED", "ABORTED"},
      ResourceInfoStatus        |-> {"NOT_FOUND", "ALREADY_EXISTS"},
      QuotaFailureStatus        |-> {"RESOURCE_EXHAUSTED"},
      DebugInfoStatus           |-> {"DATA_LOSS", "UNKNOWN", "INTERNAL", "UNAVAILABLE",
                                     "DEADLINE_EXCEEDED"},
      RetryInfoStatus           |-> {"UNAVAILABLE", "ABORTED"} ]

TableDetail ==
    [ BadRequestStatus          |-> "BadRequest",
      PreconditionFailureStatus |-> "PreconditionFailure",
      ErrorInfoStatus           |-> "ErrorInfo",
      ResourceInfoStatus        |-> "ResourceInfo",
      QuotaFailureStatus        |-> "QuotaFailure",
      DebugInfoStatus           |-> "DebugInfo",
      RetryInfoStatus           |-> "RetryInfo" ]

TableVariants == DOMAIN TableCodes

\* C1: the `status` of a value of a variant is one of that variant's permitted
\* codes, and the `status` of a value of the union is permitted by some variant.
C1_StatusInPermittedSet ==
    Typed =>
        IF value.type = "Status"
        THEN \E v \in TableVariants : value.status \in TableCodes[v]
        ELSE value.status \in TableCodes[value.type]

\* C1 witness: a DebugInfoStatus carrying DEADLINE_EXCEEDED and a DebugInfo, and a
\* status assignment through the variable has been made (the code no longer
\* matches the status it was built with).
C1_Witness ==
    /\ Typed
    /\ value.type = "DebugInfoStatus"
    /\ value.status = "DEADLINE_EXCEEDED"
    /\ value.code = CodeValue("UNKNOWN")
    /\ Len(value.details) = 1

\* C2: every element of `details` of a value of a variant was declared with the
\* detail type bound to that variant.
C2_DetailsOfBoundType ==
    (Typed /\ value.type \in Variants) =>
        \A i \in 1..Len(value.details) :
            value.details[i].decl = TableDetail[value.type]

\* C3: the number in `code` is the number of the code in `status`.
C3_CodeDenotesStatus == Typed => value.code = CodeValue(value.status)

\* C4: a candidate is accepted as a Status only if its status code is paired in
\* the variant table with the detail type of each of its details.
C4_AcceptedOnlyTablePairs ==
    (typechecks /\ value.type = "Status") =>
        \A i \in 1..Len(value.details) :
            \E v \in TableVariants :
                /\ value.status \in TableCodes[v]
                /\ value.details[i].decl = TableDetail[v]

UpperCase == {"A"}
Digits == {"0"}
LowerCase == {"a"}

\* ^[A-Z][A-Z0-9_]*[A-Z0-9]$
MatchesReason(r) ==
    /\ Len(r) >= 2
    /\ r[1] \in UpperCase
    /\ r[Len(r)] \in UpperCase \cup Digits
    /\ \A i \in 2..(Len(r) - 1) : r[i] \in UpperCase \cup Digits \cup {"_"}

\* [a-zA-Z0-9-_]
KeyCharsOnly(k) ==
    \A i \in 1..Len(k) : k[i] \in UpperCase \cup LowerCase \cup Digits \cup {"-", "_"}

\* C5: the reason of an ErrorInfo is at most 63 characters of UPPER_SNAKE_CASE.
C5_ReasonWellFormed ==
    info.set => Len(info.reason) <= MaxReasonLen /\ MatchesReason(info.reason)

\* C6: every metadata key of an ErrorInfo is at most 64 characters from
\* [a-zA-Z0-9-_].
C6_MetadataKeysWellFormed ==
    info.set => \A k \in info.metadata : Len(k) <= MaxKeyLen /\ KeyCharsOnly(k)

\* C7: no step changes a field of an existing value; a change is made only by
\* a new instance (another ref) taking its place.
C7_ImmutableAfterConstruction ==
    [][ (Typed /\ value'.type = value.type /\ value'.ref = value.ref)
            => value' = value ]_vars

\* the detail types the table binds to a status code
BoundDetailTypes(s) ==
    { Payload(v) : v \in { w \in Variants : s \in PermittedCodes(w) } }

\* C9 as stated: the status of a Status value is bound to exactly one detail type.
C9_StatusDeterminesDetailType ==
    Typed => Cardinality(BoundDetailTypes(value.status)) = 1

\* C9 amended: every status code but UNAVAILABLE and ABORTED is bound to exactly
\* one detail type; UNAVAILABLE is bound to DebugInfo and RetryInfo, ABORTED to
\* ErrorInfo and RetryInfo.
C9_StatusDeterminesDetailTypeButTwo ==
    Typed =>
        CASE value.status = "UNAVAILABLE" ->
                BoundDetailTypes(value.status) = {"DebugInfo", "RetryInfo"}
          [] value.status = "ABORTED" ->
                BoundDetailTypes(value.status) = {"ErrorInfo", "RetryInfo"}
          [] OTHER ->
                Cardinality(BoundDetailTypes(value.status)) = 1

\* C9 witness: an ABORTED value admitted as a RetryInfoStatus, with a RetryInfo.
C9_Witness ==
    /\ Typed
    /\ value.type = "RetryInfoStatus"
    /\ value.status = "ABORTED"
    /\ Len(value.details) = 1
    /\ value.details[1].decl = "RetryInfo"

FourteenCodes ==
    { "INVALID_ARGUMENT", "OUT_OF_RANGE", "FAILED_PRECONDITION", "UNAUTHENTICATED",
      "PERMISSION_DENIED", "ABORTED", "NOT_FOUND", "ALREADY_EXISTS",
      "RESOURCE_EXHAUSTED", "DATA_LOSS", "UNKNOWN", "INTERNAL", "UNAVAILABLE",
      "DEADLINE_EXCEEDED" }

\* C10: the codes a Status value can carry are exactly the 14 of the seven
\* permitted sets, of the 17 of the enumeration; none carries OK, CANCELLED or
\* UNIMPLEMENTED whatever its details.
C10_ClosedUnion ==
    /\ Typed => /\ value.status \in FourteenCodes
                /\ value.status \notin {"OK", "CANCELLED", "UNIMPLEMENTED"}
    /\ { s \in Code : IsStatus([status |-> s, details |-> << >>]) } = FourteenCodes
    /\ Cardinality(FourteenCodes) = Len(CodeNames) - Cardinality({"OK", "CANCELLED", "UNIMPLEMENTED"})

\* C10 witness: a value admitted as a Status (the union), with a detail.
C10_Witness ==
    /\ Typed
    /\ value.type = "Status"
    /\ value.status = "DATA_LOSS"
    /\ Len(value.details) = 1

====
